---- MODULE Spec2Model ----
(***************************************************************************)
(* Model of the perplexity command-line client:                            *)
(*   src/src/perplexity_cli/config.py  (Provider, MODELS, BASE_URLS,       *)
(*                                      Settings)                          *)
(*   src/src/perplexity_cli/main.py    (emit, emit_error, the helpers and  *)
(*                                      the commands)                      *)
(* One run of the process is one invocation of one command.  Text is a     *)
(* sequence of one-character strings, so that the regular expression of    *)
(* _strip_thinking and the formatting of _format_citations work on         *)
(* characters as the Python code does.                                     *)
(***************************************************************************)
EXTENDS Naturals, Sequences, FiniteSets

VARIABLES
    settings,     \* the Settings object: the two keys, the base-URL override, the timeout
    environ,      \* the names of the key variables set in os.environ
    pc,           \* position of the process in the invoked command
    command,      \* the command invoked ("" before the invocation)
    args,         \* the invocation's options and arguments
    prov,         \* the local `prov` of ask/research/reason ("" while unset)
    requests,     \* the outbound HTTP requests made, in order
    resp,         \* <<what httpx.post did>> once the request is over, <<>> before
    data,         \* <<the dict the request function returned>>, <<>> while unbound
    stdout,       \* the records written to standard output, in order
    stderr,       \* the records written to standard error, in order
    exit_code,    \* the process exit code (NoExit while running)
    think_text,   \* the text handed to _strip_thinking when it is called on its own
    think_out     \* the results of the successive calls of _strip_thinking on it

vars == <<settings, environ, pc, command, args, prov, requests, resp, data,
          stdout, stderr, exit_code, think_text, think_out>>

(***************************************************************************)
(* Bounds of the model.                                                    *)
(***************************************************************************)
\* the most fragments a text handed to _strip_thinking on its own is built from
MaxFrags == 5
\* the most citation URLs a response body carries
MaxCitations == 2

(***************************************************************************)
(* Text.                                                                   *)
(***************************************************************************)
\* the literal opening tag of the pattern of _strip_thinking
OpenTag == <<"<", "t", "h", "i", "n", "k", ">">>

\* the literal closing tag of the pattern of _strip_thinking
CloseTag == <<"<", "/", "t", "h", "i", "n", "k", ">">>

\* the characters str.strip() removes (those of them a text of the model can hold)
Whitespace == {" ", "\n", "\t", "\r"}

\* whether pat occurs in text at position i (1-based)
MatchAt(text, i, pat) ==
    /\ i + Len(pat) - 1 <= Len(text)
    /\ SubSeq(text, i, i + Len(pat) - 1) = pat

\* whether pat occurs anywhere in text
Contains(text, pat) == \E i \in 1..Len(text) : MatchAt(text, i, pat)

\* the positions at or after i where the closing tag occurs
ClosesFrom(text, i) == {j \in i..Len(text) : MatchAt(text, j, CloseTag)}

Min(S) == CHOOSE x \in S : \A y \in S : x <= y

\* str.strip(): the text without its leading and trailing whitespace
PyStrip(text) ==
    LET keep == {i \in 1..Len(text) : text[i] \notin Whitespace}
    IN  IF keep = {} THEN <<>>
        ELSE SubSeq(text, Min(keep), CHOOSE x \in keep : \A y \in keep : y <= x)

\* re.sub(r"<think>.*?</think>", "", text, flags=re.DOTALL) from position i on:
\* one left-to-right pass; at an opening tag the match runs to the first closing
\* tag after it (non-greedy, any character in between) and is dropped, the scan
\* resuming after the match; any other character is copied.
RECURSIVE ReSubThink(_, _)
ReSubThink(text, i) ==
    IF i > Len(text) THEN <<>>
    ELSE IF MatchAt(text, i, OpenTag) /\ ClosesFrom(text, i + Len(OpenTag)) # {}
         THEN ReSubThink(text, Min(ClosesFrom(text, i + Len(OpenTag))) + Len(CloseTag))
         ELSE <<text[i]>> \o ReSubThink(text, i + 1)

\* a plausible slip: the trailing .strip() forgotten
StripThinkingNoTrim(text) == ReSubThink(text, 1)

\* _strip_thinking
_strip_thinking(text) == PyStrip(ReSubThink(text, 1))

\* the decimal digits
Digit(d) == CASE d = 0 -> "0" [] d = 1 -> "1" [] d = 2 -> "2" [] d = 3 -> "3"
              [] d = 4 -> "4" [] d = 5 -> "5" [] d = 6 -> "6" [] d = 7 -> "7"
              [] d = 8 -> "8" [] d = 9 -> "9"

\* str(n) of a natural number, as the f-string formats it
RECURSIVE PyStr(_)
PyStr(n) == IF n < 10 THEN <<Digit(n)>> ELSE PyStr(n \div 10) \o <<Digit(n % 10)>>

\* "\n".join(lines)
RECURSIVE JoinLines(_)
JoinLines(lines) ==
    IF lines = <<>> THEN <<>>
    ELSE IF Len(lines) = 1 THEN lines[1]
    ELSE lines[1] \o <<"\n">> \o JoinLines(Tail(lines))

CitationsHeader == <<"\n", "\n", "C", "i", "t", "a", "t", "i", "o", "n", "s", ":", "\n">>

\* _format_citations (i below is enumerate's index plus one)
_format_citations(citations) ==
    IF citations = <<>> THEN <<>>
    ELSE CitationsHeader \o JoinLines(
            [i \in 1..Len(citations) |->
                <<"[">> \o PyStr(i) \o <<"]", " ">> \o citations[i]])

(***************************************************************************)
(* config.py: providers, the static tables and the Settings object.        *)
(***************************************************************************)
\* class Provider
Provider == {"perplexity", "openrouter"}

\* Python's None, for an option that was not given
None == "None"

\* MODELS
MODELS == [p \in Provider |->
    IF p = "perplexity"
    THEN [ask |-> "sonar-pro", research |-> "sonar-deep-research",
          reason |-> "sonar-reasoning-pro"]
    ELSE [ask |-> "perplexity/sonar-pro", research |-> "perplexity/sonar-deep-research",
          reason |-> "perplexity/sonar-reasoning"]]

\* BASE_URLS
BASE_URLS == [p \in Provider |->
    IF p = "perplexity" THEN "https://api.perplexity.ai"
    ELSE "https://openrouter.ai/api/v1"]

\* Settings.perplexity_timeout_ms (its default)
perplexity_timeout_ms == 300000

\* what keyring.get_password can do: return None, return a value, or raise
KeyringRaises == "keyring-raises"

\* Settings._keyring_fallback for one secret field: a non-empty value is kept;
\* otherwise a truthy keyring value is taken, and a keyring failure is swallowed
_keyring_fallback(field_value, keyring_result) ==
    IF field_value # "" THEN field_value
    ELSE IF keyring_result \notin {None, KeyringRaises, ""} THEN keyring_result
    ELSE field_value

\* the Settings object after construction, from the environment and the keyring
NewSettings(env_pplx, ring_pplx, env_or, ring_or, base) ==
    [perplexity_api_key   |-> _keyring_fallback(env_pplx, ring_pplx),
     openrouter_api_key   |-> _keyring_fallback(env_or, ring_or),
     perplexity_base_url  |-> base,
     perplexity_timeout_ms |-> perplexity_timeout_ms]

\* a plausible slip: the two branches of api_key exchanged
ApiKeySwapped(s, provider) ==
    IF provider = "perplexity" THEN s.openrouter_api_key ELSE s.perplexity_api_key

\* Settings.api_key
api_key(s, provider) ==
    IF provider = "perplexity" THEN s.perplexity_api_key ELSE s.openrouter_api_key

\* Settings.base_url
base_url(s, provider) ==
    IF s.perplexity_base_url # "" /\ provider = "perplexity"
    THEN s.perplexity_base_url
    ELSE BASE_URLS[provider]

(***************************************************************************)
(* main.py: helpers.  A helper that can end the process through emit_error *)
(* yields Raised(the error record); otherwise Returned(its value).         *)
(***************************************************************************)
Raised(e) == [raised |-> TRUE, error |-> e]

Returned(v) == [raised |-> FALSE, value |-> v]

\* the dict emit_error builds (and writes to stderr before typer.Exit(code))
emit_error(message, code, retryable, remediation) ==
    [status |-> "error",
     error |-> [message |-> message, code |-> code,
                retryable |-> retryable, remediation |-> remediation]]

\* a plausible slip: the search/openrouter conflict not rejected
ResolveProviderSearchUnchecked(s, provider, cmd) ==
    IF cmd = "search" THEN Returned("perplexity")
    ELSE IF provider # None THEN Returned(provider)
    ELSE IF s.perplexity_api_key # "" THEN Returned("perplexity")
    ELSE IF s.openrouter_api_key # "" THEN Returned("openrouter")
    ELSE Returned("perplexity")

\* a plausible slip: auto-detection preferring openrouter
ResolveProviderPreferOpenrouter(s, provider, cmd) ==
    IF cmd = "search"
    THEN IF provider = "openrouter"
         THEN Raised(emit_error(<<"The search command is only available via the Perplexity API (not OpenRouter).">>,
                                2, FALSE, "Use --provider perplexity or set PERPLEXITY_API_KEY"))
         ELSE Returned("perplexity")
    ELSE IF provider # None THEN Returned(provider)
    ELSE IF s.openrouter_api_key # "" THEN Returned("openrouter")
    ELSE Returned("perplexity")

\* _resolve_provider
_resolve_provider(s, provider, cmd) ==
    IF cmd = "search"
    THEN IF provider = "openrouter"
         THEN Raised(emit_error(<<"The search command is only available via the Perplexity API (not OpenRouter).">>,
                                2, FALSE, "Use --provider perplexity or set PERPLEXITY_API_KEY"))
         ELSE Returned("perplexity")
    ELSE IF provider # None THEN Returned(provider)
    ELSE IF s.perplexity_api_key # "" THEN Returned("perplexity")
    ELSE IF s.openrouter_api_key # "" THEN Returned("openrouter")
    ELSE Returned("perplexity")

\* a plausible slip: the credential check dropped
RequireAuthUnchecked(s, provider) == Returned(None)

\* _require_auth
_require_auth(s, provider) ==
    LET key == api_key(s, provider)
        var == IF provider = "perplexity" THEN "PERPLEXITY_API_KEY" ELSE "OPENROUTER_API_KEY"
    IN  IF key = ""
        THEN Raised(emit_error(<<var, " not set">>, 4, FALSE,
                               <<"Set ", var, " env var or run: install.sh">>))
        ELSE Returned(None)

\* _headers
_headers(s, provider) ==
    [ContentType |-> "application/json",
     Authorization |-> <<"Bearer", api_key(s, provider)>>]

(***************************************************************************)
(* The transport: what httpx.post can do with a request.                   *)
(***************************************************************************)
\* dict.get(key, default)
DictGet(d, key, default) == IF key \in DOMAIN d THEN d[key] ELSE default

\* a dict with the items of g added to (or replacing) those of f
Merge(f, g) == [k \in DOMAIN f \cup DOMAIN g |-> IF k \in DOMAIN g THEN g[k] ELSE f[k]]

\* the dict {}
EmptyDict == [k \in {} |-> None]

\* a body that resp.json() cannot decode
NotJson == [json |-> FALSE]

\* a body that resp.json() decodes to v
Json(v) == [json |-> TRUE, value |-> v]

\* an unhandled exception: the interpreter reports it on stderr, exit code 1
Traceback(exception) == [status |-> "traceback", exception |-> exception]

UnhandledExitCode == 1

\* the classification of _chat_request and _search_request after httpx.post:
\* Raised(error) for a handled failure, [crashed |-> exception] for an exception
\* no handler catches, Returned(resp.json()) otherwise.  have_remediation tells
\* the two functions apart: only _chat_request passes remediation texts.
Classify(outcome, have_remediation) ==
    IF outcome.kind = "timeout"
    THEN Raised(emit_error(<<"Request timed out">>, 7, TRUE,
            IF have_remediation THEN "Increase PERPLEXITY_TIMEOUT_MS or try again" ELSE ""))
    ELSE IF outcome.kind = "connect_error"
    THEN Raised(emit_error(<<"Connection error: ", outcome.kind>>, 9, TRUE, ""))
    ELSE IF outcome.kind # "response"
    THEN [raised |-> FALSE, crashed |-> TRUE, exception |-> outcome.kind]
    ELSE IF outcome.status_code = 429
    THEN Raised(emit_error(<<"Rate limited. Retry after ",
                             DictGet(outcome.headers, "retry-after", "unknown"), "s">>,
                           8, TRUE, ""))
    ELSE IF outcome.status_code = 401
    THEN Raised(emit_error(<<"Authentication failed - invalid API key">>, 4, FALSE,
            IF have_remediation THEN "Check your API key" ELSE ""))
    ELSE IF outcome.status_code >= 400
    THEN Raised(emit_error(<<"API error ", outcome.status_code, ": ", outcome.body>>,
                           9, outcome.status_code >= 500, ""))
    ELSE IF ~outcome.body.json
    THEN [raised |-> FALSE, crashed |-> TRUE, exception |-> "JSONDecodeError"]
    ELSE [raised |-> FALSE, crashed |-> FALSE, value |-> outcome.body.value]

(***************************************************************************)
(* The inputs of an invocation.                                            *)
(***************************************************************************)
Format == {"json", "text"}

\* the query argument
Query == "q"

\* the defaults of search's --max-results and --max-tokens options
max_results == 10

max_tokens_per_page == 1024

\* the options of each command (ask has no --strip-thinking; search has no --provider)
ArgsOf(cmd) ==
    CASE cmd = "ask" ->
            [query : {Query}, system : {None, "s"},
             provider : Provider \cup {None}, format : Format]
      [] cmd \in {"research", "reason"} ->
            [query : {Query}, system : {None, "s"}, strip_thinking : BOOLEAN,
             provider : Provider \cup {None}, format : Format]
      [] cmd = "search" ->
            [query : {Query}, max_results : {max_results},
             max_tokens_per_page : {max_tokens_per_page},
             country : {None, "GB"}, format : Format]
      [] cmd = "auth status" ->
            [format : Format]

\* response contents: plain; a thinking block, text and trailing whitespace; an
\* opening tag that is never closed
Contents ==
    { <<"x">>,
      OpenTag \o <<"a", "\n">> \o CloseTag \o <<"x", " ">>,
      OpenTag \o <<"a">> }

\* citation URLs; the second holds a closing tag
Urls == { <<"u">>, CloseTag \o <<"v">> }

RECURSIVE SeqsUpTo(_, _)
SeqsUpTo(S, n) ==
    IF n = 0 THEN {<<>>}
    ELSE LET shorter == SeqsUpTo(S, n - 1)
         IN  shorter \cup {Append(q, x) : q \in {r \in shorter : Len(r) = n - 1}, x \in S}

\* the optional fields beside choices and citations: none, or model and usage
OptionalMeta == {EmptyDict, [model |-> "upstream-model", usage |-> [total_tokens |-> 7]]}

\* chat bodies with choices[0].message.content
GoodChatBodies ==
    {Json(Merge(Merge([choices |-> <<[message |-> [content |-> c]]>>], cit), meta)) :
        c \in Contents,
        cit \in {EmptyDict} \cup {[citations |-> q] : q \in SeqsUpTo(Urls, MaxCitations)},
        meta \in OptionalMeta}

\* chat bodies without it: no choices, an empty list, a choice without message,
\* a message without content
MalformedChatBodies ==
    {Json(EmptyDict),
     Json([choices |-> <<>>]),
     Json([choices |-> <<EmptyDict>>]),
     Json([choices |-> <<[message |-> EmptyDict]>>])}

ChatBodies == {NotJson} \cup MalformedChatBodies \cup GoodChatBodies

SearchBodies ==
    {NotJson,
     Json(EmptyDict),
     Json([results |-> <<>>]),
     Json([results |-> <<[title |-> "T", url |-> "U", snippet |-> "S", date |-> "D"]>>]),
     Json([results |-> <<[title |-> "T", url |-> "U", snippet |-> "S", date |-> "D"],
                         [url |-> "V"]>>])}

\* the statuses a response can carry
ParsedStatuses == {200, 302}

ErrorStatuses == {400, 401, 404, 429, 500, 503}

\* everything httpx.post can do: raise TimeoutException, raise ConnectError, raise
\* another exception, or return a response
Outcomes(bodies) ==
    {[kind |-> k] : k \in {"timeout", "connect_error", "ReadError"}}
    \cup {[kind |-> "response", status_code |-> st, headers |-> EmptyDict, body |-> b] :
            st \in ParsedStatuses, b \in bodies}
    \cup {[kind |-> "response", status_code |-> st, headers |-> EmptyDict, body |-> NotJson] :
            st \in ErrorStatuses}
    \cup {[kind |-> "response", status_code |-> 429,
           headers |-> [h \in {"retry-after"} |-> "30"], body |-> NotJson]}

(***************************************************************************)
(* The process.                                                            *)
(***************************************************************************)
NoExit == "running"

\* the state after import: settings = Settings() has been constructed
Init ==
    /\ \E env_pplx \in {"", "pplx-env"}, env_or \in {"", "or-env"},
          ring_pplx \in {None, KeyringRaises, "pplx-keyring"},
          ring_or \in {None, KeyringRaises, "or-keyring"},
          base \in {"", "https://proxy.example"} :
            /\ settings = NewSettings(env_pplx, ring_pplx, env_or, ring_or, base)
            /\ environ = [PERPLEXITY_API_KEY |-> env_pplx, OPENROUTER_API_KEY |-> env_or]
    /\ pc = "idle"
    /\ command = ""
    /\ args = EmptyDict
    /\ prov = ""
    /\ requests = <<>>
    /\ resp = <<>>
    /\ data = <<>>
    /\ stdout = <<>>
    /\ stderr = <<>>
    /\ exit_code = NoExit
    /\ think_text = <<>>
    /\ think_out = <<>>

\* emit_error: the record goes to stderr and typer.Exit(code) ends the process
ExitWithError(err) ==
    /\ stderr' = Append(stderr, err)
    /\ exit_code' = err.error.code
    /\ pc' = "exited"

\* an exception nothing catches: traceback on stderr, exit code 1
Crash(exception) ==
    /\ stderr' = Append(stderr, Traceback(exception))
    /\ exit_code' = UnhandledExitCode
    /\ pc' = "exited"

\* the command function returns: exit code 0
ExitNormally ==
    /\ exit_code' = 0
    /\ pc' = "exited"

\* app(): the command line is parsed and the command function entered
Invoke(cmd, a) ==
    /\ pc = "idle"
    /\ a \in ArgsOf(cmd)
    /\ command' = cmd
    /\ args' = a
    /\ pc' = CASE cmd = "search" -> "require_auth"
               [] cmd = "auth status" -> "auth_status"
               [] OTHER -> "resolve_provider"
    /\ UNCHANGED <<settings, environ, prov, requests, resp, data, stdout, stderr,
                   exit_code, think_text, think_out>>

\* prov = _resolve_provider(provider, <command>)   (ask, research, reason)
ResolveProvider ==
    /\ pc = "resolve_provider"
    /\ LET r == _resolve_provider(settings, args.provider, command)
       IN  IF r.raised
           THEN ExitWithError(r.error) /\ UNCHANGED prov
           ELSE prov' = r.value /\ pc' = "require_auth" /\ UNCHANGED <<stderr, exit_code>>
    /\ UNCHANGED <<settings, environ, command, args, requests, resp, data, stdout,
                   think_text, think_out>>

\* _require_auth(prov), or _require_auth(Provider.perplexity) in search
RequireAuth ==
    /\ pc = "require_auth"
    /\ LET r == _require_auth(settings, IF command = "search" THEN "perplexity" ELSE prov)
       IN  IF r.raised
           THEN ExitWithError(r.error)
           ELSE pc' = "request" /\ UNCHANGED <<stderr, exit_code>>
    /\ UNCHANGED <<settings, environ, command, args, prov, requests, resp, data, stdout,
                   think_text, think_out>>

\* what a request function does once httpx.post has given `outcome`
AfterPost(outcome, have_remediation) ==
    LET r == Classify(outcome, have_remediation)
    IN  /\ resp' = <<outcome>>
        /\ IF r.raised THEN ExitWithError(r.error) /\ UNCHANGED data
           ELSE IF r.crashed THEN Crash(r.exception) /\ UNCHANGED data
           ELSE data' = <<r.value>> /\ pc' = "respond" /\ UNCHANGED <<stderr, exit_code>>

\* the messages list of ask, research and reason
Messages(a) ==
    (IF a.system # None THEN <<[role |-> "system", content |-> a.system]>> ELSE <<>>)
    \o <<[role |-> "user", content |-> a.query]>>

\* the request _chat_request posts
ChatPost(s, provider, model, messages, timeout_ms) ==
    [url |-> <<base_url(s, provider), "/chat/completions">>,
     headers |-> _headers(s, provider),
     json |-> [model |-> model, messages |-> messages],
     timeout |-> timeout_ms \div 1000]

\* data = _chat_request(prov, MODELS[prov][<command>], messages, timeout)
ChatRequest(outcome) ==
    /\ pc = "request"
    /\ command \in {"ask", "research", "reason"}
    /\ outcome \in Outcomes(ChatBodies)
    /\ requests' = Append(requests, ChatPost(settings, prov, MODELS[prov][command],
                                             Messages(args), settings.perplexity_timeout_ms))
    /\ AfterPost(outcome, TRUE)
    /\ UNCHANGED <<settings, environ, command, args, prov, stdout, think_text, think_out>>

\* the request _search_request posts
SearchPost(s, query, n, tokens, country, timeout_ms) ==
    [url |-> <<base_url(s, "perplexity"), "/search">>,
     headers |-> _headers(s, "perplexity"),
     json |-> Merge([query |-> query, max_results |-> n, max_tokens_per_page |-> tokens],
                    IF country # None THEN [country |-> country] ELSE EmptyDict),
     timeout |-> timeout_ms \div 1000]

\* data = _search_request(query, max_results, max_tokens_per_page, country, timeout)
SearchRequest(outcome) ==
    /\ pc = "request"
    /\ command = "search"
    /\ outcome \in Outcomes(SearchBodies)
    /\ requests' = Append(requests, SearchPost(settings, args.query, args.max_results,
                                               args.max_tokens_per_page, args.country,
                                               settings.perplexity_timeout_ms))
    /\ AfterPost(outcome, FALSE)
    /\ UNCHANGED <<settings, environ, command, args, prov, stdout, think_text, think_out>>

\* typer.echo(text): one write of text to stdout
Echo(text) == [kind |-> "text", value |-> text]

\* the keys of the payload auth_status builds, in insertion order
PayloadKeys(payload) ==
    SelectSeq(<<"authenticated", "providers", "service", "remediation">>,
              LAMBDA k : k \in DOMAIN payload)

\* emit(data, fmt): the writes to stdout.  JSON mode: the serialized record.  Text
\* mode (called by auth_status only, whose payload is a dict): one "k: v" line per item.
emit(d, fmt) ==
    IF fmt = "json" THEN <<[kind |-> "json", value |-> d]>>
    ELSE [i \in 1..Len(PayloadKeys(d.data)) |->
            Echo(<<PayloadKeys(d.data)[i], ": ", d.data[PayloadKeys(d.data)[i]]>>)]

\* data["choices"][0]["message"]["content"]: the content, or the exception raised
ChatContent(d) ==
    IF "choices" \notin DOMAIN d THEN [ok |-> FALSE, exception |-> "KeyError"]
    ELSE IF d.choices = <<>> THEN [ok |-> FALSE, exception |-> "IndexError"]
    ELSE IF "message" \notin DOMAIN d.choices[1] THEN [ok |-> FALSE, exception |-> "KeyError"]
    ELSE IF "content" \notin DOMAIN d.choices[1].message
         THEN [ok |-> FALSE, exception |-> "KeyError"]
    ELSE [ok |-> TRUE, value |-> d.choices[1].message.content]

\* a plausible slip: the thinking blocks stripped after the citations are appended
ResponseTextStripLast(content, citations, strip) ==
    IF strip THEN _strip_thinking(content \o _format_citations(citations))
    ELSE content \o _format_citations(citations)

\* response_text of ask (strip = FALSE: it has no such option), research and reason
ResponseText(content, citations, strip) ==
    (IF strip THEN _strip_thinking(content) ELSE content) \o _format_citations(citations)

\* the rest of ask, research and reason once data is there
ChatRespond(strip) ==
    LET content == ChatContent(data[1])
        citations == DictGet(data[1], "citations", <<>>)
        response_text == ResponseText(content.value, citations, strip)
    IN  IF ~content.ok
        THEN Crash(content.exception) /\ UNCHANGED stdout
        ELSE /\ stdout' = stdout \o
                    (IF args.format = "text" THEN <<Echo(response_text)>>
                     ELSE emit([status |-> "success",
                                data |-> [response |-> response_text,
                                          model |-> DictGet(data[1], "model", MODELS[prov][command]),
                                          provider |-> prov,
                                          citations |-> citations,
                                          usage |-> DictGet(data[1], "usage", None)]],
                               args.format))
             /\ ExitNormally
             /\ UNCHANGED stderr

ask ==
    /\ pc = "respond"
    /\ command = "ask"
    /\ ChatRespond(FALSE)
    /\ UNCHANGED <<settings, environ, command, args, prov, requests, resp, data,
                   think_text, think_out>>

research ==
    /\ pc = "respond"
    /\ command = "research"
    /\ ChatRespond(args.strip_thinking)
    /\ UNCHANGED <<settings, environ, command, args, prov, requests, resp, data,
                   think_text, think_out>>

reason ==
    /\ pc = "respond"
    /\ command = "reason"
    /\ ChatRespond(args.strip_thinking)
    /\ UNCHANGED <<settings, environ, command, args, prov, requests, resp, data,
                   think_text, think_out>>

\* the lines of search's text listing for result number i
ResultLines(r, i) ==
    <<<<i, ". **", DictGet(r, "title", "Untitled"), "**">>,
      <<"   URL: ", DictGet(r, "url", "")>>>>
    \o (IF DictGet(r, "snippet", "") # "" THEN <<<<"   ", r.snippet>>>> ELSE <<>>)
    \o (IF DictGet(r, "date", "") # "" THEN <<<<"   Date: ", r.date>>>> ELSE <<>>)
    \o <<<<"">>>>

RECURSIVE ListingLines(_, _)
ListingLines(results, i) ==
    IF i > Len(results) THEN <<>>
    ELSE ResultLines(results[i], i) \o ListingLines(results, i + 1)

\* the rest of search once data is there
search ==
    /\ pc = "respond"
    /\ command = "search"
    /\ LET results == DictGet(data[1], "results", <<>>)
       IN  stdout' = stdout \o
             (IF args.format = "text"
              THEN IF results = <<>> THEN <<Echo(<<<<"No results found.">>>>)>>
                   ELSE <<Echo(<<<<"Found ", Len(results), " search results:\n">>>>
                               \o ListingLines(results, 1))>>
              ELSE emit([status |-> "success", data |-> results,
                         metadata |-> [count |-> Len(results), query |-> args.query]],
                        args.format))
    /\ ExitNormally
    /\ UNCHANGED <<settings, environ, command, args, prov, requests, resp, data, stderr,
                   think_text, think_out>>

\* auth status: the report goes to stdout; typer.Exit(4) when no key is there
auth_status ==
    /\ pc = "auth_status"
    /\ LET perplexity_ok == settings.perplexity_api_key # ""
           openrouter_ok == settings.openrouter_api_key # ""
           authenticated == perplexity_ok \/ openrouter_ok
           Entry(ok, var) ==
               IF ok THEN [authenticated |-> TRUE,
                           token_source |-> IF environ[var] # "" THEN "env" ELSE "keyring"]
               ELSE [authenticated |-> FALSE]
           providers == [perplexity |-> Entry(perplexity_ok, "PERPLEXITY_API_KEY"),
                         openrouter |-> Entry(openrouter_ok, "OPENROUTER_API_KEY")]
           payload == Merge([authenticated |-> authenticated, providers |-> providers,
                             service |-> "perplexity"],
                            IF ~authenticated
                            THEN [remediation |->
                                    "Set PERPLEXITY_API_KEY or OPENROUTER_API_KEY env var"]
                            ELSE EmptyDict)
       IN  /\ stdout' = stdout \o emit([status |-> "success", data |-> payload], args.format)
           /\ exit_code' = IF ~authenticated THEN 4 ELSE 0
           /\ pc' = "exited"
    /\ UNCHANGED <<settings, environ, command, args, prov, requests, resp, data, stderr,
                   think_text, think_out>>

Commands == {"search", "ask", "research", "reason", "auth status"}

Next ==
    \/ \E cmd \in Commands : \E a \in ArgsOf(cmd) : Invoke(cmd, a)
    \/ ResolveProvider
    \/ RequireAuth
    \/ \E outcome \in Outcomes(ChatBodies) : ChatRequest(outcome)
    \/ \E outcome \in Outcomes(SearchBodies) : SearchRequest(outcome)
    \/ ask
    \/ research
    \/ reason
    \/ search
    \/ auth_status

Spec == Init /\ [][Next]_vars

(***************************************************************************)
(* _resolve_provider called on its own, with any provider and any command. *)
(***************************************************************************)
CallResolveProvider(provider, cmd) ==
    /\ pc = "idle"
    /\ command' = cmd
    /\ args' = [provider |-> provider]
    /\ LET r == _resolve_provider(settings, provider, cmd)
       IN  IF r.raised
           THEN ExitWithError(r.error) /\ UNCHANGED prov
           ELSE prov' = r.value /\ pc' = "returned" /\ UNCHANGED <<stderr, exit_code>>
    /\ UNCHANGED <<settings, environ, requests, resp, data, stdout, think_text, think_out>>

RouteNext ==
    \E provider \in Provider \cup {None}, cmd \in {"search", "ask", "research", "reason"} :
        CallResolveProvider(provider, cmd)

RouteSpec == Init /\ [][RouteNext]_vars

(***************************************************************************)
(* _strip_thinking called on its own, then again on its own result.        *)
(***************************************************************************)
\* the pieces the texts are built from: the two tags, the two halves of an
\* opening tag, whitespace and a letter
Frags == {OpenTag, CloseTag, <<"<", "t", "h", "i">>, <<"n", "k", ">">>, <<" ">>, <<"x">>}

RECURSIVE TextsUpTo(_)
TextsUpTo(n) ==
    IF n = 0 THEN {<<>>}
    ELSE LET shorter == TextsUpTo(n - 1)
         IN  shorter \cup {t \o f : t \in shorter, f \in Frags}

StripInit ==
    /\ settings = NewSettings("", None, "", None, "")
    /\ environ = [PERPLEXITY_API_KEY |-> "", OPENROUTER_API_KEY |-> ""]
    /\ pc = "idle"
    /\ command = ""
    /\ args = EmptyDict
    /\ prov = ""
    /\ requests = <<>>
    /\ resp = <<>>
    /\ data = <<>>
    /\ stdout = <<>>
    /\ stderr = <<>>
    /\ exit_code = NoExit
    /\ think_text \in TextsUpTo(MaxFrags)
    /\ think_out = <<>>

CallStripThinking ==
    /\ Len(think_out) < 2
    /\ think_out' = Append(think_out,
            _strip_thinking(IF think_out = <<>> THEN think_text ELSE think_out[Len(think_out)]))
    /\ UNCHANGED <<settings, environ, pc, command, args, prov, requests, resp, data,
                   stdout, stderr, exit_code, think_text>>

StripNext == CallStripThinking

StripSpec == StripInit /\ [][StripNext]_vars

(***************************************************************************)
(* Properties.                                                             *)
(***************************************************************************)
ChatCommands == {"ask", "research", "reason"}

QueryCommands == {"search"} \cup ChatCommands

\* the process has ended with exactly this one structured error on stderr
EndedWithError(code, retryable) ==
    /\ pc = "exited"
    /\ exit_code = code
    /\ Len(stderr) = 1
    /\ stderr[1].status = "error"
    /\ stderr[1].error.code = code
    /\ stderr[1].error.retryable = retryable

\* the request is over and httpx.post returned a response
GotResponse == Len(resp) = 1 /\ resp[1].kind = "response"

\* the rows of the classification table that name an error
ClassificationRows ==
    (pc \in {"respond", "exited"} /\ Len(resp) = 1) =>
        /\ resp[1].kind = "timeout" => EndedWithError(7, TRUE)
        /\ resp[1].kind = "connect_error" => EndedWithError(9, TRUE)
        /\ (GotResponse /\ resp[1].status_code = 429) => EndedWithError(8, TRUE)
        /\ (GotResponse /\ resp[1].status_code = 401) => EndedWithError(4, FALSE)
        /\ (GotResponse /\ resp[1].status_code \in (400..499) \ {401, 429})
                => EndedWithError(9, FALSE)
        /\ (GotResponse /\ resp[1].status_code >= 500) => EndedWithError(9, TRUE)

\* the last row: a body is parsed as a success body only under a 2xx status
OnlySuccessParsed ==
    data # <<>> => (GotResponse /\ resp[1].status_code \in 200..299)

\* C1: for the chat and the search request, every transport outcome is classified
\* as the table says (timeout 7/retryable, connection failure 9/retryable, 429
\* 8/retryable, 401 4/final, other 4xx 9/final, 5xx 9/retryable), and only a 2xx
\* status is parsed as a success body.
C1_Classification == ClassificationRows /\ OnlySuccessParsed

\* C2: _resolve_provider for search fails with the non-retryable error 2 when
\* openrouter is requested, whatever keys are set, and returns perplexity when no
\* provider or perplexity is requested.
C2_SearchRouting ==
    (pc # "idle" /\ command = "search") =>
        IF args.provider = "openrouter"
        THEN EndedWithError(2, FALSE) /\ prov = ""
        ELSE pc = "returned" /\ prov = "perplexity" /\ stderr = <<>>

\* search routed with openrouter requested while only openrouter's key is set
C2_Witness ==
    /\ pc = "exited"
    /\ command = "search"
    /\ args.provider = "openrouter"
    /\ settings.openrouter_api_key # ""
    /\ settings.perplexity_api_key = ""
    /\ exit_code = 2

\* C3: for ask, research and reason _resolve_provider returns the explicit provider
\* unchanged; with none given, perplexity if its key is set, else openrouter if its
\* key is set, else perplexity.  So with only P's key set auto-detection returns P,
\* and it never returns a provider without key while the other provider has one.
C3_ChatRouting ==
    (pc # "idle" /\ command \in ChatCommands) =>
        /\ pc = "returned"
        /\ stderr = <<>>
        /\ args.provider # None => prov = args.provider
        /\ args.provider = None =>
            /\ settings.perplexity_api_key # "" => prov = "perplexity"
            /\ (settings.perplexity_api_key = "" /\ settings.openrouter_api_key # "")
                    => prov = "openrouter"
            /\ (settings.perplexity_api_key = "" /\ settings.openrouter_api_key = "")
                    => prov = "perplexity"
            /\ \A p \in Provider :
                    (/\ api_key(settings, p) # ""
                     /\ \A q \in Provider \ {p} : api_key(settings, q) = "") => prov = p
            /\ ~ \E q \in Provider \ {prov} :
                    api_key(settings, prov) = "" /\ api_key(settings, q) # ""

\* auto-detection for ask with only openrouter's key set
C3_Witness ==
    /\ pc = "returned"
    /\ command = "ask"
    /\ args.provider = None
    /\ settings.perplexity_api_key = ""
    /\ settings.openrouter_api_key # ""
    /\ prov = "openrouter"

\* a success result was written to stdout
ProducedResult == stdout # <<>>

\* a StructuredError was written to stderr
ProducedError == \E i \in 1..Len(stderr) : stderr[i].status = "error"

\* C4: an invocation of search, ask, research or reason ends with exactly one of a
\* success result and a StructuredError, for every transport outcome and body.
C4_ExactlyOne ==
    (pc = "exited" /\ command \in QueryCommands) => (ProducedResult # ProducedError)

\* C5: a chat request answered 2xx with a body lacking choices[0].message.content
\* ends with a StructuredError of code 9, retryable = false.
C5_MalformedIsUpstreamError ==
    (/\ pc = "exited"
     /\ command \in ChatCommands
     /\ GotResponse
     /\ resp[1].status_code \in 200..299
     /\ resp[1].body.json
     /\ ~ChatContent(resp[1].body.value).ok) => EndedWithError(9, FALSE)

\* the key of the provider the invocation is routed to is set
RoutedCredentialPresent ==
    IF command = "search" THEN settings.perplexity_api_key # ""
    ELSE /\ prov \in Provider
         /\ prov = "perplexity" => settings.perplexity_api_key # ""
         /\ prov = "openrouter" => settings.openrouter_api_key # ""

C6_AtMostOneCall ==
    /\ Len(requests) <= 1
    /\ requests # <<>> => (command \in QueryCommands /\ RoutedCredentialPresent)
    /\ (/\ pc = "exited"
        /\ command \in ChatCommands
        /\ args.provider = None
        /\ settings.perplexity_api_key = ""
        /\ settings.openrouter_api_key = "")
            => (prov = "perplexity" /\ EndedWithError(4, FALSE) /\ requests = <<>>)

C6_Order ==
    /\ requests' # requests => (pc = "request" /\ Len(requests') = Len(requests) + 1)
    /\ (pc' = "request" /\ pc # "request") => pc = "require_auth"
    /\ (pc' = "require_auth" /\ pc # "require_auth") =>
            \/ pc = "resolve_provider" /\ prov' \in Provider
            \/ pc = "idle" /\ command' = "search"

\* C6: an invocation makes at most one outbound call, and none unless routing
\* succeeded and the routed provider's key is set (route, then credential check,
\* then the request); with no key at all and no explicit provider, routing returns
\* perplexity and the invocation fails at the credential check with code 4 without
\* any call.
C6_SingleCallAfterAuth == [](C6_AtMostOneCall) /\ [][C6_Order]_vars

\* ask with no key configured and no explicit provider, ended at the credential check
C6_Witness ==
    /\ pc = "exited"
    /\ command = "ask"
    /\ args.provider = None
    /\ settings.perplexity_api_key = ""
    /\ settings.openrouter_api_key = ""
    /\ prov = "perplexity"
    /\ exit_code = 4
    /\ requests = <<>>

\* C7: for every command, a failed invocation writes exactly one error record to
\* stderr, nothing to stdout, and exits with the record's code (2, 4, 7, 8 or 9);
\* the exit code is 0 exactly when the invocation succeeded and wrote its success
\* output to stdout.
C7_ErrorsTerminal ==
    pc = "exited" =>
        IF exit_code = 0
        THEN stdout # <<>> /\ stderr = <<>>
        ELSE /\ stdout = <<>>
             /\ Len(stderr) = 1
             /\ stderr[1].status = "error"
             /\ stderr[1].error.code = exit_code
             /\ exit_code \in {2, 4, 7, 8, 9}

\* the base URL of the primary provider: the configured override, else the default
PrimaryBaseUrl ==
    IF settings.perplexity_base_url # "" THEN settings.perplexity_base_url
    ELSE "https://api.perplexity.ai"

\* C8: search never sends a request to openrouter: whatever keys are set, it sends
\* its single request to perplexity's base URL with perplexity's key, or ends with
\* an error without any request.
C8_SearchPrimaryOnly ==
    command = "search" =>
        /\ Len(requests) <= 1
        /\ \A i \in 1..Len(requests) :
            /\ requests[i].url = <<PrimaryBaseUrl, "/search">>
            /\ requests[i].url[1] # "https://openrouter.ai/api/v1"
            /\ settings.perplexity_api_key # ""
            /\ requests[i].headers.Authorization = <<"Bearer", settings.perplexity_api_key>>
        /\ (pc = "exited" /\ requests = <<>>) =>
            /\ stdout = <<>>
            /\ exit_code # 0
            /\ ProducedError

\* search has sent its request while both keys are set
C8_Witness ==
    /\ command = "search"
    /\ Len(requests) = 1
    /\ settings.perplexity_api_key # ""
    /\ settings.openrouter_api_key # ""
    /\ pc = "exited"
    /\ exit_code = 0

\* C9 as stated: _strip_thinking applied twice gives what it gives once, and a
\* text without an opening tag is returned unchanged.
C9_Idempotent ==
    /\ Len(think_out) = 2 => think_out[2] = think_out[1]
    /\ (Len(think_out) >= 1 /\ ~Contains(think_text, OpenTag)) => think_out[1] = think_text

\* text holds an opening tag with a closing tag after it
HasBlock(text) ==
    \E i \in 1..Len(text) :
        MatchAt(text, i, OpenTag) /\ ClosesFrom(text, i + Len(OpenTag)) # {}

\* s is t without t's leading and trailing whitespace
IsTrimOf(s, t) ==
    /\ s # <<>> => (s[1] \notin Whitespace /\ s[Len(s)] \notin Whitespace)
    /\ \E i \in 0..Len(t) :
        /\ i + Len(s) <= Len(t)
        /\ SubSeq(t, i + 1, i + Len(s)) = s
        /\ \A k \in 1..i : t[k] \in Whitespace
        /\ \A k \in (i + Len(s) + 1)..Len(t) : t[k] \in Whitespace

\* C9 (amended): a second application changes nothing unless the first result
\* still holds a <think>...</think> block, and a text without an opening tag is
\* returned with its leading and trailing whitespace removed.
C9_IdempotentUnlessSpliced ==
    /\ (Len(think_out) = 2 /\ ~HasBlock(think_out[1])) => think_out[2] = think_out[1]
    /\ (Len(think_out) >= 1 /\ ~Contains(think_text, OpenTag))
            => IsTrimOf(think_out[1], think_text)

\* a text with a thinking block and leading whitespace, stripped twice to one result
C9_Witness ==
    /\ Len(think_out) = 2
    /\ HasBlock(think_text)
    /\ think_text[1] \in Whitespace
    /\ think_out[1] # <<>>
    /\ ~HasBlock(think_out[1])
    /\ think_out[2] = think_out[1]

\* the citation block as the specification words it: nothing for no URL; else a
\* blank line, the header, and one line "[i] url" per URL, numbered from 1
RECURSIVE CitationLinesFrom(_, _)
CitationLinesFrom(urls, i) ==
    IF i > Len(urls) THEN <<>>
    ELSE <<"\n", "[">> \o PyStr(i) \o <<"]", " ">> \o urls[i] \o CitationLinesFrom(urls, i + 1)

CitationBlock(urls) ==
    IF urls = <<>> THEN <<>>
    ELSE <<"\n", "\n", "C", "i", "t", "a", "t", "i", "o", "n", "s", ":">>
         \o CitationLinesFrom(urls, 1)

\* the response text the invocation wrote to stdout
EmittedResponse ==
    IF args.format = "text" THEN stdout[1].value ELSE stdout[1].value.data.response

\* C10: the response text ask, research and reason emit is the content, with the
\* thinking blocks stripped first exactly when that was requested, followed by
\* the citation block, appended once and after the strip, which never alters it.
C10_ResponseText ==
    (pc = "exited" /\ command \in ChatCommands /\ exit_code = 0) =>
        LET body == resp[1].body.value
            content == body.choices[1].message.content
            urls == IF "citations" \in DOMAIN body THEN body.citations ELSE <<>>
            stripped == IF command # "ask" /\ args.strip_thinking
                        THEN _strip_thinking(content) ELSE content
        IN  /\ Len(stdout) = 1
            /\ EmittedResponse = stripped \o CitationBlock(urls)
            /\ args.format = "json" => stdout[1].value.data.citations = urls

\* research with stripping requested, a thinking block in the content and two
\* citations, the second holding a closing tag
C10_Witness ==
    /\ pc = "exited"
    /\ command = "research"
    /\ exit_code = 0
    /\ args.strip_thinking
    /\ HasBlock(resp[1].body.value.choices[1].message.content)
    /\ "citations" \in DOMAIN resp[1].body.value
    /\ Len(resp[1].body.value.citations) = 2
    /\ Contains(resp[1].body.value.citations[2], CloseTag)

====
